---------------------------- MODULE Spec2Model ----------------------------
(***************************************************************************)
(* The transform tree of pylon (src/src/tree.rs) over the linear algebra   *)
(* kernel (src/src/linear.rs) and the Point / Rotation primitives          *)
(* (src/src/lib.rs).                                                       *)
(*                                                                         *)
(* Scalars are f32 in the source.  Every scalar of the model is a small    *)
(* integer, which f32 represents exactly, so +, * on them are exact.       *)
(* Angles are whole quarter turns; SinCos gives their exact sine/cosine.   *)
(* Rust indexes from 0, TLA+ tuples from 1: component i of the source is   *)
(* component i+1 here.                                                     *)
(***************************************************************************)
EXTENDS Integers, Sequences, FiniteSets, TLC

\* ------------------------------------------------------------- bounds
\* Number of nodes the application owns.
NumNodes == 2
\* Number of changes the application makes in one run: assignments through
\* the _mut accessors and drops of a node.
MaxMutations == 3
\* Number of invalidate_cache() / invalidate_global_cache() calls in one run.
MaxInvalidations == 2

Nodes == 1..NumNodes

\* The value an empty Option / an unresolvable Weak is modelled by.
None == <<>>
NoNode == 0

\* ------------------------------------------------------------- linear.rs
\* Vector::new(r0, r1, r2, r3)
Vector_new(r0, r1, r2, r3) == <<r0, r1, r2, r3>>

\* Matrix_new that stores its arguments row by row.
Matrix_new_row_storage(r0c0, r0c1, r0c2, r0c3, r1c0, r1c1, r1c2, r1c3, r2c0, r2c1, r2c2, r2c3, r3c0, r3c1, r3c2, r3c3) ==
    << Vector_new(r0c0, r0c1, r0c2, r0c3),
       Vector_new(r1c0, r1c1, r1c2, r1c3),
       Vector_new(r2c0, r2c1, r2c2, r2c3),
       Vector_new(r3c0, r3c1, r3c2, r3c3) >>

\* Matrix::new: 16 scalars in left-to-right, top-to-bottom order, stored as
\* four column vectors.
Matrix_new(r0c0, r0c1, r0c2, r0c3, r1c0, r1c1, r1c2, r1c3, r2c0, r2c1, r2c2, r2c3, r3c0, r3c1, r3c2, r3c3) ==
    << Vector_new(r0c0, r1c0, r2c0, r3c0),
       Vector_new(r0c1, r1c1, r2c1, r3c1),
       Vector_new(r0c2, r1c2, r2c2, r3c2),
       Vector_new(r0c3, r1c3, r2c3, r3c3) >>

\* Matrix::ZERO
Matrix_ZERO ==
    Matrix_new(0, 0, 0, 0,
               0, 0, 0, 0,
               0, 0, 0, 0,
               0, 0, 0, 0)

\* IDENTITY with a one off the diagonal.
IDENTITY_sheared ==
    Matrix_new(1, 0, 0, 0,
               0, 1, 0, 0,
               0, 0, 1, 0,
               1, 0, 0, 1)

\* Matrix::IDENTITY
IDENTITY ==
    Matrix_new(1, 0, 0, 0,
               0, 1, 0, 0,
               0, 0, 1, 0,
               0, 0, 0, 1)

\* Matrix::columns
columns(m) == m

\* Vector::to_array
Vector_to_array(v) == v

\* Matrix::to_array: the four columns, each as an array
to_array(m) == [j \in 1..4 |-> Vector_to_array(m[j])]

\* Matrix::as_rows
as_rows(m) ==
    LET cols == to_array(m)
    IN  << Vector_new(cols[1][1], cols[2][1], cols[3][1], cols[4][1]),
           Vector_new(cols[1][2], cols[2][2], cols[3][2], cols[4][2]),
           Vector_new(cols[1][3], cols[2][3], cols[3][3], cols[4][3]),
           Vector_new(cols[1][4], cols[2][4], cols[3][4], cols[4][4]) >>

\* Vector::sum
sum(v) == v[1] + v[2] + v[3] + v[4]

\* impl Add<Self> for Vector
Vector_add(a, b) == <<a[1] + b[1], a[2] + b[2], a[3] + b[3], a[4] + b[4]>>

\* impl Mul<Self> for Vector (component-wise)
Vector_mul(a, b) == <<a[1] * b[1], a[2] * b[2], a[3] * b[3], a[4] * b[4]>>

\* Matrix_mul that takes the columns of self where it should take its rows.
Matrix_mul_self_columns(self, rhs) ==
    LET rows == columns(self)
        cols == columns(rhs)
        elem(a, b) == sum(Vector_mul(rows[a], cols[b]))
    IN  Matrix_new(elem(1, 1), elem(1, 2), elem(1, 3), elem(1, 4),
                   elem(2, 1), elem(2, 2), elem(2, 3), elem(2, 4),
                   elem(3, 1), elem(3, 2), elem(3, 3), elem(3, 4),
                   elem(4, 1), elem(4, 2), elem(4, 3), elem(4, 4))

\* Matrix_mul with the operands' roles exchanged: rows of rhs, columns of self.
Matrix_mul_rhs_rows(self, rhs) ==
    LET rows == as_rows(rhs)
        cols == columns(self)
        elem(a, b) == sum(Vector_mul(rows[a], cols[b]))
    IN  Matrix_new(elem(1, 1), elem(1, 2), elem(1, 3), elem(1, 4),
                   elem(2, 1), elem(2, 2), elem(2, 3), elem(2, 4),
                   elem(3, 1), elem(3, 2), elem(3, 3), elem(3, 4),
                   elem(4, 1), elem(4, 2), elem(4, 3), elem(4, 4))

\* impl Mul<Self> for Matrix.  Both operands are passed by value: each is
\* evaluated once, before the rows and columns are taken.
Matrix_mul(self, rhs) ==
    CHOOSE product \in
        { LET rows == as_rows(lhs)
              cols == columns(r)
              elem(a, b) == sum(Vector_mul(rows[a], cols[b]))
          IN  Matrix_new(elem(1, 1), elem(1, 2), elem(1, 3), elem(1, 4),
                         elem(2, 1), elem(2, 2), elem(2, 3), elem(2, 4),
                         elem(3, 1), elem(3, 2), elem(3, 3), elem(3, 4),
                         elem(4, 1), elem(4, 2), elem(4, 3), elem(4, 4))
          : lhs \in {self}, r \in {rhs} } : TRUE

\* Simd::splat
splat(s) == <<s, s, s, s>>

\* impl Mul<Scalar> for Vector
Vector_mul_Scalar(self, rhs) == Vector_mul(self, splat(rhs))

\* impl Mul<Vector> for Scalar
Scalar_mul_Vector(self, rhs) == Vector_mul_Scalar(rhs, self)

\* impl Add<Self> for Matrix
Matrix_add(self, rhs) ==
    << Vector_add(self[1], rhs[1]), Vector_add(self[2], rhs[2]),
       Vector_add(self[3], rhs[3]), Vector_add(self[4], rhs[4]) >>

\* Matrix * Scalar that scales the first three columns only.
Matrix_mul_Scalar_linear_part(self, rhs) ==
    << Vector_mul_Scalar(self[1], rhs), Vector_mul_Scalar(self[2], rhs),
       Vector_mul_Scalar(self[3], rhs), self[4] >>

\* impl Mul<Scalar> for Matrix
Matrix_mul_Scalar(self, rhs) ==
    << Vector_mul_Scalar(self[1], rhs), Vector_mul_Scalar(self[2], rhs),
       Vector_mul_Scalar(self[3], rhs), Vector_mul_Scalar(self[4], rhs) >>

\* impl Mul<Matrix> for Scalar
Scalar_mul_Matrix(self, rhs) == Matrix_mul_Scalar(rhs, self)

\* ------------------------------------------------------------- lib.rs
\* Point::ORIGIN
ORIGIN == [x |-> 0, y |-> 0, z |-> 0]

\* Rotation::ZERO
ZERO == [x |-> 0, y |-> 0, z |-> 0]

\* impl From<Vector> for Point: the fourth component is dropped
Point_from(v) ==
    LET a == Vector_to_array(v)
    IN  [x |-> a[1], y |-> a[2], z |-> a[3]]

\* Vector::from(Point) that makes a direction (w = 0) of the point.
Vector_from_direction(p) == Vector_new(p.x, p.y, p.z, 0)

\* impl From<Point> for Vector
Vector_from(p) == Vector_new(p.x, p.y, p.z, 1)

\* ------------------------------------------------------------- tree.rs
\* SinCos::new, for an angle of q quarter turns.  The values are the exact
\* sine and cosine; f32::sin and f32::cos of a rounded multiple of pi/2 differ
\* from them by a rounding error, which the model leaves out.
SinCos(q) ==
    [sin |-> CASE q % 4 = 0 -> 0 [] q % 4 = 1 -> 1 [] q % 4 = 2 -> 0 [] OTHER -> -1,
     cos |-> CASE q % 4 = 0 -> 1 [] q % 4 = 1 -> 0 [] q % 4 = 2 -> -1 [] OTHER -> 0]

\* Node::create_local_position_matrix
create_local_position_matrix(position) ==
    LET m == IDENTITY
    IN  [m EXCEPT ![4] = Vector_add(m[4], Vector_from(position))]

\* Node::create_local_x_rotation_matrix
create_local_x_rotation_matrix(rotation) ==
    LET s == SinCos(rotation.x).sin
        c == SinCos(rotation.x).cos
    IN  Matrix_new(1, 0, 0, 0,
                   0, c, -s, 0,
                   0, s, c, 0,
                   0, 0, 0, 1)

\* Node::create_local_y_rotation_matrix
create_local_y_rotation_matrix(rotation) ==
    LET s == SinCos(rotation.y).sin
        c == SinCos(rotation.y).cos
    IN  Matrix_new(c, 0, s, 0,
                   0, 1, 0, 0,
                   -s, 0, c, 0,
                   0, 0, 0, 1)

\* create_local_z_rotation_matrix that turns the other way.
create_local_z_rotation_matrix_clockwise(rotation) ==
    LET s == SinCos(rotation.z).sin
        c == SinCos(rotation.z).cos
    IN  Matrix_new(c, s, 0, 0,
                   -s, c, 0, 0,
                   0, 0, 1, 0,
                   0, 0, 0, 1)

\* Node::create_local_z_rotation_matrix
create_local_z_rotation_matrix(rotation) ==
    LET s == SinCos(rotation.z).sin
        c == SinCos(rotation.z).cos
    IN  Matrix_new(c, -s, 0, 0,
                   s, c, 0, 0,
                   0, 0, 1, 0,
                   0, 0, 0, 1)

\* create_local_rotation_matrix that multiplies in the order Z, Y, X.
create_local_rotation_matrix_zyx(rotation) ==
    Matrix_mul(Matrix_mul(create_local_z_rotation_matrix(rotation),
                          create_local_y_rotation_matrix(rotation)),
               create_local_x_rotation_matrix(rotation))

\* Node::create_local_rotation_matrix
create_local_rotation_matrix(rotation) ==
    Matrix_mul(Matrix_mul(create_local_x_rotation_matrix(rotation),
                          create_local_y_rotation_matrix(rotation)),
               create_local_z_rotation_matrix(rotation))

\* Node::create_local_scale_matrix
create_local_scale_matrix(f) ==
    Matrix_new(f, 0, 0, 0,
               0, f, 0, 0,
               0, 0, f, 0,
               0, 0, 0, 1)

\* Node::create_local_transformation_matrix
create_local_transformation_matrix(position, rotation, scale) ==
    Matrix_mul(Matrix_mul(create_local_position_matrix(position),
                          create_local_rotation_matrix(rotation)),
               create_local_scale_matrix(scale))

\* ------------------------------------------------------------- inputs
\* The values the application assigns through position_mut(), rotation_mut()
\* and scale_mut().
Points ==
    { ORIGIN,
      [x |-> 1, y |-> 0, z |-> 0],
      [x |-> 5, y |-> 0, z |-> 0] }

Rotations ==
    { ZERO,
      [x |-> 0, y |-> 0, z |-> 1] }

Scales == {1, 2}

\* Column vectors the matrices are tried on.
Vectors ==
    { <<0, 0, 0, 1>>, <<1, 0, 0, 1>>, <<0, 1, 0, 1>>, <<0, 0, 1, 1>>,
      <<1, 2, 3, 1>>, <<1, 0, 0, 0>>, <<0, 1, 0, 0>>, <<0, 0, 1, 0>> }

\* The positions (w = 1) among them.
PositionVectors == {v \in Vectors : v[4] = 1}

\* ------------------------------------------------------------- state
VARIABLES
    alive,      \* alive[n]: the Rc<Node> of n still has an owner
    parent,     \* Node::parent, a Weak<Node>: the node referred to, or NoNode
    position,   \* Node::position
    rotation,   \* Node::rotation
    scale,      \* Node::scale
    cached,     \* Node::cached_transformation_matrices: [local, global]
    stack,      \* the frames of global_transformation_matrix() in progress
    ret,        \* the matrix a finished frame hands to its caller, or None
    last,       \* the operation that has just finished and what it returned
    mutations,  \* number of field assignments made so far
    invalidations, \* number of invalidation calls made so far
    overflow,   \* the recursion exhausted the call stack (the process is gone)
    owes,       \* owes[n]: why the application still owes node n an invalidation
    probe,      \* a function applied on its own: [fn, args, result]
    demo,       \* examples/cube.rs: the locals of main() and the uniform written
    render      \* a Renderer::render call: its arguments, its place, the pass

vars == <<alive, parent, position, rotation, scale, cached, stack, ret, last,
          mutations, invalidations, overflow, owes, probe, demo, render>>

\* A run of recursion deeper than the number of nodes revisits a node, and a
\* revisited node has an empty global slot for ever: the recursion has no end.
StackLimit == NumNodes + 1

\* impl Default for CachedTransformationMatrices
CachedTransformationMatrices_default == [local |-> None, global |-> None]

\* Node::default() with scale 2.
Node_default_scaled ==
    [parent |-> NoNode, position |-> ORIGIN, rotation |-> ZERO, scale |-> 2,
     cached_transformation_matrices |-> CachedTransformationMatrices_default]

\* impl Default for Node
Node_default ==
    [parent |-> NoNode, position |-> ORIGIN, rotation |-> ZERO, scale |-> 1,
     cached_transformation_matrices |-> CachedTransformationMatrices_default]

\* What the application saw of the operation that has just finished: which
\* operation, on which node, and for a query the matrix it returned and
\* whether its cell held that matrix already (hit).  For an invalidation, hit
\* tells whether every cell it empties held a matrix.
Result(op, n, hit, m) == [op |-> op, node |-> n, hit |-> hit, ret |-> m]
NoResult == Result("none", NoNode, FALSE, None)

\* A function of the library called on its own, outside any node: its name,
\* its arguments, and its result once it has been applied (None before).
Call(fn, args) == [fn |-> fn, args |-> args, result |-> None]
NoCall == Call("none", <<>>)

\* The nodes after construction with Node::default().
TreeInit ==
    /\ alive = [n \in Nodes |-> TRUE]
    /\ parent = [n \in Nodes |-> Node_default.parent]
    /\ position = [n \in Nodes |-> Node_default.position]
    /\ rotation = [n \in Nodes |-> Node_default.rotation]
    /\ scale = [n \in Nodes |-> Node_default.scale]
    /\ cached = [n \in Nodes |-> Node_default.cached_transformation_matrices]
    /\ stack = <<>>
    /\ ret = None
    /\ last = NoResult
    /\ mutations = 0
    /\ invalidations = 0
    /\ overflow = FALSE
    /\ owes = [n \in Nodes |-> {}]

\* examples/cube.rs before its event loop runs, and no Renderer::render call.
NoDemo == [pc |-> "off"]
NoRender == [pc |-> "off"]

Init == TreeInit /\ probe = NoCall /\ demo = NoDemo /\ render = NoRender

\* The application calls into the tree only between calls: tree.rs is
\* single-threaded and none of its methods calls back into the application.
Idle == stack = <<>> /\ ~overflow

\* upgrade that still resolves a reference to a dropped node.
upgrade_dropped(weak) == weak

\* Weak::upgrade: the node referred to while it is alive, else NoNode
upgrade(weak) == IF weak # NoNode /\ alive[weak] THEN weak ELSE NoNode

\* ------------------------------------------------------------- mutation
\* *node.position_mut() = p
position_mut(n, p) ==
    /\ Idle /\ alive[n] /\ mutations < MaxMutations
    /\ p # position[n]
    /\ position' = [position EXCEPT ![n] = p]
    /\ mutations' = mutations + 1
    /\ last' = Result("position_mut", n, FALSE, None)
    /\ UNCHANGED <<alive, parent, rotation, scale, cached, stack, ret, invalidations, overflow>>

\* *node.rotation_mut() = r
rotation_mut(n, r) ==
    /\ Idle /\ alive[n] /\ mutations < MaxMutations
    /\ r # rotation[n]
    /\ rotation' = [rotation EXCEPT ![n] = r]
    /\ mutations' = mutations + 1
    /\ last' = Result("rotation_mut", n, FALSE, None)
    /\ UNCHANGED <<alive, parent, position, scale, cached, stack, ret, invalidations, overflow>>

\* *node.scale_mut() = f
scale_mut(n, f) ==
    /\ Idle /\ alive[n] /\ mutations < MaxMutations
    /\ f # scale[n]
    /\ scale' = [scale EXCEPT ![n] = f]
    /\ mutations' = mutations + 1
    /\ last' = Result("scale_mut", n, FALSE, None)
    /\ UNCHANGED <<alive, parent, position, rotation, cached, stack, ret, invalidations, overflow>>

\* parent_mut that empties both cells of the node it changes.
parent_mut_invalidates(n, p) ==
    /\ Idle /\ alive[n] /\ mutations < MaxMutations
    /\ p # parent[n]
    /\ p # NoNode => alive[p]
    /\ parent' = [parent EXCEPT ![n] = p]
    /\ cached' = [cached EXCEPT ![n] = CachedTransformationMatrices_default]
    /\ mutations' = mutations + 1
    /\ last' = Result("parent_mut", n, FALSE, None)
    /\ UNCHANGED <<alive, position, rotation, scale, stack, ret, invalidations, overflow>>

\* *node.parent_mut() = Rc::downgrade(&p), or Weak::new() for p = NoNode
parent_mut(n, p) ==
    /\ Idle /\ alive[n] /\ mutations < MaxMutations
    /\ p # parent[n]
    /\ p # NoNode => alive[p]
    /\ parent' = [parent EXCEPT ![n] = p]
    /\ mutations' = mutations + 1
    /\ last' = Result("parent_mut", n, FALSE, None)
    /\ UNCHANGED <<alive, position, rotation, scale, cached, stack, ret, invalidations, overflow>>

\* The last owner of n drops it.  Weak references to n stop resolving; the
\* node's own fields are freed with it.
drop(n) ==
    /\ Idle /\ alive[n] /\ mutations < MaxMutations
    /\ mutations' = mutations + 1
    /\ alive' = [alive EXCEPT ![n] = FALSE]
    /\ parent' = [parent EXCEPT ![n] = Node_default.parent]
    /\ position' = [position EXCEPT ![n] = Node_default.position]
    /\ rotation' = [rotation EXCEPT ![n] = Node_default.rotation]
    /\ scale' = [scale EXCEPT ![n] = Node_default.scale]
    /\ cached' = [cached EXCEPT ![n] = Node_default.cached_transformation_matrices]
    /\ last' = Result("drop", n, FALSE, None)
    /\ UNCHANGED <<stack, ret, invalidations, overflow>>

\* ------------------------------------------------------------- invalidation
\* invalidate_global that leaves the global cell as it is.
invalidate_global_keeps(c) == c

\* invalidate_global that empties the local cell as well.
invalidate_global_clears_local(c) == [c EXCEPT !.global = None, !.local = None]

\* CachedTransformationMatrices::invalidate_global
invalidate_global(c) == [c EXCEPT !.global = None]

\* invalidate_all that leaves the local cell alone.
invalidate_all_keeps_local(c) == invalidate_global(c)

\* invalidate_all that leaves the global cell alone.
invalidate_all_keeps_global(c) == [c EXCEPT !.local = None]

\* CachedTransformationMatrices::invalidate_all
invalidate_all(c) == [invalidate_global(c) EXCEPT !.local = None]

\* Node::invalidate_global_cache
invalidate_global_cache(n) ==
    /\ Idle /\ alive[n] /\ invalidations < MaxInvalidations
    /\ invalidations' = invalidations + 1
    /\ cached' = [cached EXCEPT ![n] = invalidate_global(@)]
    /\ last' = Result("invalidate_global_cache", n, cached[n].global # None, None)
    /\ UNCHANGED <<alive, parent, position, rotation, scale, stack, ret,
                   mutations, overflow>>

\* invalidate_cache that also empties the global cell of the node's children.
invalidate_cache_cascades(n) ==
    /\ Idle /\ alive[n] /\ invalidations < MaxInvalidations
    /\ invalidations' = invalidations + 1
    /\ cached' = [d \in Nodes |->
                     IF d = n THEN invalidate_all(cached[d])
                     ELSE IF parent[d] = n THEN invalidate_global(cached[d])
                     ELSE cached[d]]
    /\ last' = Result("invalidate_cache", n,
                    cached[n].local # None /\ cached[n].global # None, None)
    /\ UNCHANGED <<alive, parent, position, rotation, scale, stack, ret,
                   mutations, overflow>>

\* Node::invalidate_cache
invalidate_cache(n) ==
    /\ Idle /\ alive[n] /\ invalidations < MaxInvalidations
    /\ invalidations' = invalidations + 1
    /\ cached' = [cached EXCEPT ![n] = invalidate_all(@)]
    /\ last' = Result("invalidate_cache", n,
                    cached[n].local # None /\ cached[n].global # None, None)
    /\ UNCHANGED <<alive, parent, position, rotation, scale, stack, ret,
                   mutations, overflow>>

\* ------------------------------------------------------------- queries
\* transformation_matrix that never reads the cell.
transformation_matrix_uncached(cell, created) ==
    [hit |-> FALSE, matrix |-> created]

\* Node::transformation_matrix: the cell's matrix when it holds one, else the
\* matrix `create` made.  [hit, matrix]; the cell holds matrix afterwards.
transformation_matrix(cell, created) ==
    IF cell # None
        THEN [hit |-> TRUE, matrix |-> cell]
        ELSE [hit |-> FALSE, matrix |-> created]

\* Node::local_transformation_matrix, as a value: what the call returns in
\* the current state and whether the local cell held it already
local_matrix(n) ==
    transformation_matrix(
        cached[n].local,
        create_local_transformation_matrix(position[n], rotation[n], scale[n]))

\* A local query that resets the node's scale factor.
local_transformation_matrix_resets_scale(n) ==
    /\ Idle /\ alive[n]
    /\ cached' = [cached EXCEPT ![n].local = local_matrix(n).matrix]
    /\ last' = Result("local_transformation_matrix", n, local_matrix(n).hit,
                  local_matrix(n).matrix)
    /\ scale' = [scale EXCEPT ![n] = 1]
    /\ UNCHANGED <<alive, parent, position, rotation, stack, ret,
                   mutations, invalidations, overflow>>

\* Node::local_transformation_matrix
local_transformation_matrix(n) ==
    /\ Idle /\ alive[n]
    /\ cached' = [cached EXCEPT ![n].local = local_matrix(n).matrix]
    /\ last' = Result("local_transformation_matrix", n, local_matrix(n).hit,
                  local_matrix(n).matrix)
    /\ UNCHANGED <<alive, parent, position, rotation, scale, stack, ret,
                   mutations, invalidations, overflow>>

\* A frame of Node::global_transformation_matrix on node n.  matrix is the
\* local variable of create_global_transformation_matrix; it is None in the
\* frame of a call that has been made and has not yet run.
Frame(n, m) == [node |-> n, matrix |-> m]

top == stack[Len(stack)]
pop == SubSeq(stack, 1, Len(stack) - 1)

\* A return that leaves the frames as they are, so that the caller never sees
\* the call end.
return_keeps_frame(n, stk, m, hit) ==
    /\ stack' = stack
    /\ ret' = m
    /\ UNCHANGED last

\* The frame of node n, called from the frames stk, returns m: to the
\* caller's frame, or to the application when there is no caller.
return(n, stk, m, hit) ==
    /\ stack' = stk
    /\ IF stk = <<>>
          THEN /\ ret' = None
               /\ last' = Result("global_transformation_matrix", n, hit, m)
          ELSE /\ ret' = m
               /\ UNCHANGED last

\* create_global_product with the parent's matrix as the left operand.
create_global_product_swapped(matrix, parent_global) ==
    Matrix_mul(parent_global, matrix)

\* Node::create_global_transformation_matrix, the product it forms once the
\* parent's global matrix is known: matrix *= node.global_transformation_matrix()
create_global_product(matrix, parent_global) == Matrix_mul(matrix, parent_global)

\* global_call that never reads the global cell.
global_call_ignores_cell(n, stk) ==
    LET l == local_matrix(n).matrix
        p == upgrade(parent[n])
    IN  IF p = NoNode
           THEN /\ cached' = [cached EXCEPT ![n] = [local |-> l, global |-> l]]
                /\ return(n, stk, l, FALSE)
                /\ UNCHANGED overflow
           ELSE /\ cached' = [cached EXCEPT ![n].local = l]
                /\ stack' = stk \o <<Frame(n, l), Frame(p, None)>>
                /\ overflow' = (Len(stk) + 2 > StackLimit)
                /\ UNCHANGED <<ret, last>>

\* Node::global_transformation_matrix on node n, called from the frames stk,
\* up to its return or to its call on the parent: transformation_matrix() on
\* the global cell, and on a miss create_global_transformation_matrix, which
\* queries the local matrix and upgrades the parent reference.
global_call(n, stk) ==
    LET g == cached[n].global
        l == local_matrix(n).matrix
        p == upgrade(parent[n])
    IN  IF g # None
           THEN /\ return(n, stk, g, TRUE)
                /\ UNCHANGED <<cached, overflow>>
           ELSE IF p = NoNode
                   THEN /\ cached' = [cached EXCEPT ![n] =
                                         [local |-> l, global |-> l]]
                        /\ return(n, stk, l, FALSE)
                        /\ UNCHANGED overflow
                   ELSE /\ cached' = [cached EXCEPT ![n].local = l]
                        /\ stack' = stk \o <<Frame(n, l), Frame(p, None)>>
                        /\ overflow' = (Len(stk) + 2 > StackLimit)
                        /\ UNCHANGED <<ret, last>>

\* The application calls node.global_transformation_matrix().
global_transformation_matrix(n) ==
    /\ Idle /\ alive[n]
    /\ global_call(n, <<>>)
    /\ UNCHANGED <<alive, parent, position, rotation, scale, mutations,
                   invalidations>>

\* The call a frame made on its parent runs.
global_enter ==
    /\ stack # <<>> /\ ~overflow
    /\ top.matrix = None
    /\ global_call(top.node, pop)
    /\ UNCHANGED <<alive, parent, position, rotation, scale, mutations,
                   invalidations>>

\* global_resume that returns the product and leaves the global cell empty.
global_resume_unstored ==
    /\ stack # <<>> /\ ~overflow
    /\ top.matrix # None /\ ret # None
    /\ return(top.node, pop, create_global_product(top.matrix, ret), FALSE)
    /\ UNCHANGED <<alive, parent, position, rotation, scale, mutations,
                   invalidations, overflow, cached>>

\* The call on the parent returned parent_global: the frame forms the product
\* and transformation_matrix() stores it in the global cell and returns it.
global_resume ==
    /\ stack # <<>> /\ ~overflow
    /\ top.matrix # None /\ ret # None
    /\ LET n == top.node
           m == create_global_product(top.matrix, ret)
       IN  /\ cached' = [cached EXCEPT ![n].global = m]
           /\ return(n, pop, m, FALSE)
    /\ UNCHANGED <<alive, parent, position, rotation, scale, mutations,
                   invalidations, overflow>>

\* Node::global_transformation_matrix, as a value: the matrix the call on n
\* returns in the current state, or None when the recursion is still going k
\* calls further up.
RECURSIVE global_matrix(_, _)
global_matrix(n, k) ==
    LET g == cached[n].global
        l == local_matrix(n).matrix
        p == upgrade(parent[n])
    IN  IF g # None THEN g
        ELSE IF p = NoNode THEN l
        ELSE IF k = 0 THEN None
        ELSE LET parent_global == global_matrix(p, k - 1)
             IN  IF parent_global = None THEN None
                 ELSE create_global_product(l, parent_global)

Next ==
    \/ \E n \in Nodes, p \in Points : position_mut(n, p) /\ UNCHANGED <<owes, probe, demo, render>>
    \/ \E n \in Nodes, r \in Rotations : rotation_mut(n, r) /\ UNCHANGED <<owes, probe, demo, render>>
    \/ \E n \in Nodes, f \in Scales : scale_mut(n, f) /\ UNCHANGED <<owes, probe, demo, render>>
    \/ \E n \in Nodes, p \in Nodes \cup {NoNode} : parent_mut(n, p) /\ UNCHANGED <<owes, probe, demo, render>>
    \/ \E n \in Nodes : drop(n) /\ UNCHANGED <<owes, probe, demo, render>>
    \/ \E n \in Nodes : invalidate_global_cache(n) /\ UNCHANGED <<owes, probe, demo, render>>
    \/ \E n \in Nodes : invalidate_cache(n) /\ UNCHANGED <<owes, probe, demo, render>>
    \/ \E n \in Nodes : local_transformation_matrix(n) /\ UNCHANGED <<owes, probe, demo, render>>
    \/ \E n \in Nodes : global_transformation_matrix(n) /\ UNCHANGED <<owes, probe, demo, render>>
    \/ global_enter /\ UNCHANGED <<owes, probe, demo, render>>
    \/ global_resume /\ UNCHANGED <<owes, probe, demo, render>>

\* Any application: it calls the operations in any order.  It keeps no account
\* of the invalidations it owes.
Spec == Init /\ [][Next]_vars

\* An application that changes the shape of the tree only: it assigns parent
\* references and drops nodes, and leaves position, rotation and scale as they
\* are.  Whether a query comes to an end depends on the parent references,
\* on the nodes alive and on the cells that hold a matrix, not on the entries
\* of the matrices.
NextShape ==
    \/ \E n \in Nodes, p \in Nodes \cup {NoNode} : parent_mut(n, p) /\ UNCHANGED <<owes, probe, demo, render>>
    \/ \E n \in Nodes : drop(n) /\ UNCHANGED <<owes, probe, demo, render>>
    \/ \E n \in Nodes : invalidate_global_cache(n) /\ UNCHANGED <<owes, probe, demo, render>>
    \/ \E n \in Nodes : invalidate_cache(n) /\ UNCHANGED <<owes, probe, demo, render>>
    \/ \E n \in Nodes : local_transformation_matrix(n) /\ UNCHANGED <<owes, probe, demo, render>>
    \/ \E n \in Nodes : global_transformation_matrix(n) /\ UNCHANGED <<owes, probe, demo, render>>
    \/ global_enter /\ UNCHANGED <<owes, probe, demo, render>>
    \/ global_resume /\ UNCHANGED <<owes, probe, demo, render>>

\* A call in progress keeps running: the thread that made it executes it.
Recursion == (global_enter \/ global_resume) /\ UNCHANGED <<owes, probe, demo, render>>
FairSpec == Init /\ [][NextShape]_vars /\ WF_vars(Recursion)

\* ------------------------------------------------------------- rotation
\* create_local_rotation_matrix on its own, for every rotation of whole quarter
\* turns about the three axes.
QuarterTurns == 0..3
RotationInputs == [x : QuarterTurns, y : QuarterTurns, z : QuarterTurns]

InitRotation ==
    /\ TreeInit
    /\ probe \in {Call("create_local_rotation_matrix", <<r>>) : r \in RotationInputs}
    /\ demo = NoDemo /\ render = NoRender

NextRotation ==
    /\ probe.fn = "create_local_rotation_matrix" /\ probe.result = None
    /\ probe' = [probe EXCEPT !.result = create_local_rotation_matrix(probe.args[1])]
    /\ UNCHANGED <<alive, parent, position, rotation, scale, cached, stack, ret,
                   last, mutations, invalidations, overflow, owes, demo, render>>

SpecRotation == InitRotation /\ [][NextRotation]_vars

\* ------------------------------------------------------------- linear.rs alone
\* The operations of linear.rs on their own, on matrices, vectors and scalars
\* with small integer entries.
Matrices ==
    { IDENTITY,
      Matrix_ZERO,
      Matrix_new(1, 2, 3, 4,
                 5, 6, 7, 8,
                 9, 10, 11, 12,
                 13, 14, 15, 16),
      Matrix_new(0, -1, 0, 2,
                 3, 0, 0, 0,
                 0, 0, 1, -2,
                 1, 0, 0, 0),
      create_local_position_matrix([x |-> 1, y |-> 2, z |-> 3]),
      create_local_z_rotation_matrix([x |-> 0, y |-> 0, z |-> 1]),
      create_local_x_rotation_matrix([x |-> 1, y |-> 0, z |-> 0]),
      create_local_scale_matrix(2) }

\* The matrices products of three are formed of.
Factors ==
    { m \in Matrices :
        /\ m # Matrix_ZERO
        /\ m # create_local_scale_matrix(2)
        /\ m # create_local_x_rotation_matrix([x |-> 1, y |-> 0, z |-> 0]) }

\* Argument lists of Matrix::new.
Scalars16 ==
    { <<1, 2, 3, 4, 5, 6, 7, 8, 9, 10, 11, 12, 13, 14, 15, 16>>,
      <<0, 1, 0, 0, 0, 0, 0, 0, 0, 0, 0, 0, 0, 0, 0, 0>>,
      <<0, 0, 0, 0, 0, 0, 0, 0, 0, 0, 0, 0, 1, 0, 0, 0>>,
      <<-1, 0, 0, 7, 0, -2, 0, 8, 0, 0, -3, 9, 0, 0, 0, 1>> }

InitLinear ==
    /\ TreeInit
    /\ probe \in
          {Call("Matrix_mul", <<a, b>>) : a \in Matrices, b \in Matrices}
          \cup {Call("Matrix_mul twice", <<a, b, c>>) : a \in Factors, b \in Factors, c \in Factors}
          \cup {Call("Matrix_new", a) : a \in Scalars16}
          \cup {Call("rows times vector", <<m, v>>) : m \in Matrices, v \in Vectors}
    /\ demo = NoDemo /\ render = NoRender

\* self * rhs
mul ==
    /\ probe.fn = "Matrix_mul" /\ probe.result = None
    /\ probe' = [probe EXCEPT !.result = Matrix_mul(probe.args[1], probe.args[2])]

\* (a * b) * c and a * (b * c)
mul_twice ==
    /\ probe.fn = "Matrix_mul twice" /\ probe.result = None
    /\ LET a == probe.args[1]
           b == probe.args[2]
           c == probe.args[3]
       IN  probe' = [probe EXCEPT !.result =
                        [left |-> Matrix_mul(Matrix_mul(a, b), c),
                         right |-> Matrix_mul(a, Matrix_mul(b, c))]]

\* Matrix::new(r0c0, ..., r3c3), and columns(), to_array() and as_rows() of it
new ==
    /\ probe.fn = "Matrix_new" /\ probe.result = None
    /\ LET a == probe.args
           m == Matrix_new(a[1], a[2], a[3], a[4], a[5], a[6], a[7], a[8],
                           a[9], a[10], a[11], a[12], a[13], a[14], a[15], a[16])
       IN  probe' = [probe EXCEPT !.result =
                        [columns |-> columns(m), to_array |-> to_array(m),
                         as_rows |-> as_rows(m)]]

\* The matrix-vector product made of the kernel's primitives: component i is
\* (m.as_rows()[i] * v).sum()
rows_times_vector ==
    /\ probe.fn = "rows times vector" /\ probe.result = None
    /\ LET rows == as_rows(probe.args[1])
           v == probe.args[2]
       IN  probe' = [probe EXCEPT !.result =
                        Vector_new(sum(Vector_mul(rows[1], v)), sum(Vector_mul(rows[2], v)),
                                   sum(Vector_mul(rows[3], v)), sum(Vector_mul(rows[4], v)))]

NextLinear ==
    /\ \/ mul
       \/ mul_twice
       \/ new
       \/ rows_times_vector
    /\ UNCHANGED <<alive, parent, position, rotation, scale, cached, stack, ret,
                   last, mutations, invalidations, overflow, owes, demo, render>>

SpecLinear == InitLinear /\ [][NextLinear]_vars

\* ------------------------------------------------------------- scalars and sums
\* The scalar products and the matrix sum of linear.rs on their own.
Scalars == {-1, 0, 2, 3}

InitScalar ==
    /\ TreeInit
    /\ probe \in
          {Call("Matrix and Scalar", <<m, s>>) : m \in Matrices, s \in Scalars}
          \cup {Call("Vector and Scalar", <<v, s>>) : v \in Vectors, s \in Scalars}
          \cup {Call("Matrix_add", <<a, b>>) : a \in Matrices, b \in Matrices}
    /\ demo = NoDemo /\ render = NoRender

\* matrix * scalar and scalar * matrix
matrix_and_scalar ==
    /\ probe.fn = "Matrix and Scalar" /\ probe.result = None
    /\ probe' = [probe EXCEPT !.result =
                    [matrix_first |-> Matrix_mul_Scalar(probe.args[1], probe.args[2]),
                     scalar_first |-> Scalar_mul_Matrix(probe.args[2], probe.args[1])]]

\* vector * scalar and scalar * vector
vector_and_scalar ==
    /\ probe.fn = "Vector and Scalar" /\ probe.result = None
    /\ probe' = [probe EXCEPT !.result =
                    [vector_first |-> Vector_mul_Scalar(probe.args[1], probe.args[2]),
                     scalar_first |-> Scalar_mul_Vector(probe.args[2], probe.args[1])]]

\* self + rhs
add ==
    /\ probe.fn = "Matrix_add" /\ probe.result = None
    /\ probe' = [probe EXCEPT !.result = Matrix_add(probe.args[1], probe.args[2])]

NextScalar ==
    /\ \/ matrix_and_scalar
       \/ vector_and_scalar
       \/ add
    /\ UNCHANGED <<alive, parent, position, rotation, scale, cached, stack, ret,
                   last, mutations, invalidations, overflow, owes, demo, render>>

SpecScalar == InitScalar /\ [][NextScalar]_vars

\* ------------------------------------------------------------- points
\* The conversions between Point and Vector on their own.
Coordinates == -2..2
PointInputs == [x : Coordinates, y : Coordinates, z : Coordinates]

InitPoint ==
    /\ TreeInit
    /\ probe \in
          {Call("Point to Vector to Point", <<p>>) : p \in PointInputs}
          \cup {Call("Vector to Point", <<v>>) : v \in Vectors}
    /\ demo = NoDemo /\ render = NoRender

\* Point::from(Vector::from(p)), and the vector in between
point_to_vector_to_point ==
    /\ probe.fn = "Point to Vector to Point" /\ probe.result = None
    /\ probe' = [probe EXCEPT !.result =
                    [vector |-> Vector_from(probe.args[1]),
                     point |-> Point_from(Vector_from(probe.args[1]))]]

\* Point::from(v)
vector_to_point ==
    /\ probe.fn = "Vector to Point" /\ probe.result = None
    /\ probe' = [probe EXCEPT !.result = Point_from(probe.args[1])]

NextPoint ==
    /\ \/ point_to_vector_to_point
       \/ vector_to_point
    /\ UNCHANGED <<alive, parent, position, rotation, scale, cached, stack, ret,
                   last, mutations, invalidations, overflow, owes, demo, render>>

SpecPoint == InitPoint /\ [][NextPoint]_vars

\* ------------------------------------------------------------- examples/cube.rs
\* The event loop of the cube demo.  Lengths are counted in tenths and scale
\* factors in twentieths, so that the values main() computes are whole numbers;
\* the angles tick_count / 100.0 and tick_count / 10_000.0 are left open and
\* drawn from whole quarter turns.

\* cube.transforms_node, the one node of the demo
CubeNode == 1
\* Frames drawn in one run.
MaxFrames == 3
\* The cursor coordinates CursorMoved maps into -1.0 ..= 1.0.
MouseCoords == {0, 10}
OrbitAngles == {0, 1}
RotationAngles == {0, 1}
\* The scale while the left button is held (0.5) and the values of
\* 0.05 + ((tick_count / 10_000.0).sin() + 1.0) / 50.0
HeldScale == 10
IdleScales == {1, 2}

\* main() up to event_loop.run: create_cube made the node with Node::default()
\* and nothing has been written to cube.transforms_range.
InitCube ==
    /\ TreeInit
    /\ probe = NoCall /\ render = NoRender
    /\ demo = [pc |-> "events", tick_count |-> 0,
               mouse_position |-> ORIGIN, mouse_is_down |-> FALSE,
               uniform |-> None, earlier |-> None]

\* WindowEvent::CursorMoved
CursorMoved ==
    /\ demo.pc = "events"
    /\ \E x \in MouseCoords, y \in MouseCoords :
          demo' = [demo EXCEPT !.mouse_position.x = x, !.mouse_position.y = y]
    /\ UNCHANGED <<position, rotation, scale, cached>>

\* WindowEvent::MouseInput
MouseInput ==
    /\ demo.pc = "events"
    /\ \E button \in {"Left", "Right"}, state \in {"Pressed", "Released"} :
          demo' = IF button = "Left"
                     THEN [demo EXCEPT !.mouse_is_down = (state = "Pressed")]
                     ELSE demo
    /\ UNCHANGED <<position, rotation, scale, cached>>

\* Event::RedrawRequested, "Update cube position."
redraw_position ==
    /\ demo.pc = "events" /\ demo.tick_count < MaxFrames
    /\ \E orbit_angle \in OrbitAngles :
          position' = [position EXCEPT ![CubeNode] =
              [@ EXCEPT !.x = demo.mouse_position.x + SinCos(orbit_angle).cos,
                        !.y = demo.mouse_position.y + SinCos(orbit_angle).sin]]
    /\ demo' = [demo EXCEPT !.pc = "rotation"]
    /\ UNCHANGED <<rotation, scale, cached>>

\* "Update cube rotation."
redraw_rotation ==
    /\ demo.pc = "rotation"
    /\ \E rotation_angle \in RotationAngles :
          rotation' = [rotation EXCEPT ![CubeNode] =
              [@ EXCEPT !.x = rotation_angle, !.y = rotation_angle]]
    /\ demo' = [demo EXCEPT !.pc = "scale"]
    /\ UNCHANGED <<position, scale, cached>>

\* "Update cube scale."
redraw_scale ==
    /\ demo.pc = "scale"
    /\ \E f \in IF demo.mouse_is_down THEN {HeldScale} ELSE IdleScales :
          scale' = [scale EXCEPT ![CubeNode] = f]
    /\ demo' = [demo EXCEPT !.pc = "invalidate"]
    /\ UNCHANGED <<position, rotation, cached>>

\* tn.invalidate_cache()
redraw_invalidate ==
    /\ demo.pc = "invalidate"
    /\ cached' = [cached EXCEPT ![CubeNode] = invalidate_all(@)]
    /\ demo' = [demo EXCEPT !.pc = "write"]
    /\ UNCHANGED <<position, rotation, scale>>

\* uniform_heap.write_and_flush(.., cube.transforms_range,
\*     bytes_of(&tn.local_transformation_matrix().to_array()))
redraw_write ==
    /\ demo.pc = "write"
    /\ cached' = [cached EXCEPT ![CubeNode].local = local_matrix(CubeNode).matrix]
    /\ demo' = [demo EXCEPT !.pc = "present",
                            !.uniform = to_array(local_matrix(CubeNode).matrix),
                            !.earlier = demo.uniform]
    /\ UNCHANGED <<position, rotation, scale>>

\* The frame is submitted and tick_count += 1.0.
redraw_present ==
    /\ demo.pc = "present"
    /\ demo' = [demo EXCEPT !.pc = "events", !.tick_count = @ + 1]
    /\ UNCHANGED <<position, rotation, scale, cached>>

NextCube ==
    /\ \/ CursorMoved
       \/ MouseInput
       \/ redraw_position
       \/ redraw_rotation
       \/ redraw_scale
       \/ redraw_invalidate
       \/ redraw_write
       \/ redraw_present
    /\ UNCHANGED <<alive, parent, stack, ret, last, mutations, invalidations,
                   overflow, owes, probe, render>>

SpecCube == InitCube /\ [][NextCube]_vars

\* ------------------------------------------------------------- renderer.rs
\* Renderer::render on a camera and a list of objects.  Of an object the model
\* keeps the indices of its bind_group_slots(); of the render pass, the bind
\* group set at each index, named by who supplied it.
MaxObjects == 2
MaxSlots == 2
SlotIndexes == 0..3
\* The lowest index a slot of an object may have.
FirstUserSlot == 2

\* The sequences over S of length at most k.
SeqUpTo(S, k) == UNION {[1..len -> S] : len \in 0..k}

\* The bind groups: the camera's, object i's transforms, slot j of object i.
OfCamera == [of |-> "camera", object |-> 0, slot |-> 0]
OfTransforms(i) == [of |-> "transforms", object |-> i, slot |-> 0]
OfSlot(i, j) == [of |-> "slot", object |-> i, slot |-> j]

InitRender ==
    /\ TreeInit
    /\ probe = NoCall /\ demo = NoDemo
    /\ render \in
          {[pc |-> "begin", objects |-> objects, object |-> 0, slot |-> 0,
            bind_groups |-> [index \in SlotIndexes |-> None],
            panic |-> None, drawn |-> 0]
           : objects \in SeqUpTo(SeqUpTo(SlotIndexes, MaxSlots), MaxObjects)}

\* The pass is created and the camera's bind group set at index 0.
render_begin ==
    /\ render.pc = "begin"
    /\ render' = [render EXCEPT !.pc = "object", !.object = 1,
                                !.bind_groups[0] = OfCamera]

\* The next object of the loop: its pipeline, and its transforms at index 1.
render_object ==
    /\ render.pc = "object" /\ render.object <= Len(render.objects)
    /\ render' = [render EXCEPT !.pc = "slot", !.slot = 1,
                                !.bind_groups[1] = OfTransforms(render.object)]

\* render_slot without the check of the index.
render_slot_unchecked ==
    /\ render.pc = "slot"
    /\ render.slot <= Len(render.objects[render.object])
    /\ LET index == render.objects[render.object][render.slot]
       IN  render' = [render EXCEPT !.slot = @ + 1,
                         !.bind_groups[index] = OfSlot(render.object, render.slot)]

\* The next slot of object.bind_group_slots(): a panic when its index is below
\* 2, else its bind group is set at its index.
render_slot ==
    /\ render.pc = "slot"
    /\ render.slot <= Len(render.objects[render.object])
    /\ LET index == render.objects[render.object][render.slot]
       IN  IF index < FirstUserSlot
              THEN render' = [render EXCEPT !.pc = "panicked",
                                 !.panic = "slots 0 and 1 cannot be overwritten"]
              ELSE render' = [render EXCEPT !.slot = @ + 1,
                                 !.bind_groups[index] = OfSlot(render.object, render.slot)]

\* The slots are done: the buffers are set and the object is drawn.
render_draw ==
    /\ render.pc = "slot"
    /\ render.slot > Len(render.objects[render.object])
    /\ render' = [render EXCEPT !.pc = "object", !.object = @ + 1,
                                !.drawn = @ + 1]

\* The objects are done: the commands are submitted and the frame presented.
render_submit ==
    /\ render.pc = "object" /\ render.object > Len(render.objects)
    /\ render' = [render EXCEPT !.pc = "submitted"]

NextRender ==
    /\ \/ render_begin
       \/ render_object
       \/ render_slot
       \/ render_draw
       \/ render_submit
    /\ UNCHANGED <<alive, parent, position, rotation, scale, cached, stack, ret,
                   last, mutations, invalidations, overflow, owes, probe, demo>>

\* The call, once made, runs to its end or to its panic.
SpecRender == InitRender /\ [][NextRender]_vars /\ WF_vars(NextRender)

\* ------------------------------------------------------------- discipline
\* The caller's side of the cache contract.  A change to a node makes the
\* application owe invalidations, for one of three reasons:
\*   "fields"   the node's position, rotation or scale was assigned;
\*              invalidate_cache() on the node pays
\*   "parent"   the node's parent reference was assigned;
\*              invalidate_cache() on the node pays
\*   "ancestor" a node above it was changed or dropped;
\*              invalidate_cache() or invalidate_global_cache() on the node pays
\* An invalidation that would find the cell it is owed for empty is not owed:
\* invalidate_global and invalidate_all leave an empty cell as it is.
\* "paid" in owes[n] records that an invalidation owed to n has been made.

\* a is reached from d by following parent references that resolve, in at most
\* k steps.
RECURSIVE IsAncestor(_, _, _)
IsAncestor(a, d, k) ==
    /\ k > 0
    /\ LET p == upgrade(parent[d])
       IN  p # NoNode /\ (p = a \/ IsAncestor(a, p, k - 1))

\* The nodes below n.
Descendants(n) == {d \in Nodes : alive[d] /\ IsAncestor(n, d, NumNodes)}

\* What the application owes once node n has changed for the given reason
\* ("drop" for its destruction).
owed(n, reason) ==
    [d \in Nodes |->
        (IF d = n /\ reason = "drop" THEN {} ELSE owes[d])
        \cup (IF d = n /\ reason = "fields" /\ cached[n].local # None
                 THEN {"fields"} ELSE {})
        \cup (IF d = n /\ reason = "parent" /\ cached[n].global # None
                 THEN {"parent"} ELSE {})
        \cup (IF d # n /\ d \in Descendants(n) /\ cached[d].global # None
                 THEN {"ancestor"} ELSE {})]

\* What is left of the debt to a node once an invalidation that pays for the
\* reasons has been made on it.
paid(debt, reasons) ==
    IF debt \cap reasons = {} THEN debt ELSE (debt \ reasons) \cup {"paid"}

\* Nothing is owed for any of the reasons.
Paid(reasons) == \A n \in Nodes : owes[n] \cap reasons = {}

\* An application that makes no query while it owes an invalidation for one of
\* the reasons.
Disciplined(reasons) ==
    \/ \E n \in Nodes, p \in Points :
          position_mut(n, p) /\ owes' = owed(n, "fields") /\ UNCHANGED <<probe, demo, render>>
    \/ \E n \in Nodes, r \in Rotations :
          rotation_mut(n, r) /\ owes' = owed(n, "fields") /\ UNCHANGED <<probe, demo, render>>
    \/ \E n \in Nodes, f \in Scales :
          scale_mut(n, f) /\ owes' = owed(n, "fields") /\ UNCHANGED <<probe, demo, render>>
    \/ \E n \in Nodes, p \in Nodes \cup {NoNode} :
          parent_mut(n, p) /\ owes' = owed(n, "parent") /\ UNCHANGED <<probe, demo, render>>
    \/ \E n \in Nodes : drop(n) /\ owes' = owed(n, "drop") /\ UNCHANGED <<probe, demo, render>>
    \/ \E n \in Nodes :
          invalidate_global_cache(n) /\ owes' = [owes EXCEPT ![n] = paid(@, {"ancestor"})] /\ UNCHANGED <<probe, demo, render>>
    \/ \E n \in Nodes :
          invalidate_cache(n) /\ owes' = [owes EXCEPT ![n] = paid(@, {"fields", "parent", "ancestor"})] /\ UNCHANGED <<probe, demo, render>>
    \/ \E n \in Nodes :
          Paid(reasons) /\ local_transformation_matrix(n) /\ UNCHANGED <<owes, probe, demo, render>>
    \/ \E n \in Nodes :
          Paid(reasons) /\ global_transformation_matrix(n) /\ UNCHANGED <<owes, probe, demo, render>>
    \/ global_enter /\ UNCHANGED <<owes, probe, demo, render>>
    \/ global_resume /\ UNCHANGED <<owes, probe, demo, render>>

\* invalidate_cache() follows every assignment of position, rotation or scale
\* before the next query.
NextFields == Disciplined({"fields"})
SpecFields == Init /\ [][NextFields]_vars

\* Before the next query, invalidate_cache() follows every assignment on the
\* node assigned to, and invalidate_cache() or invalidate_global_cache() on
\* every node below a node that was assigned to or dropped.
NextTree == Disciplined({"fields", "parent", "ancestor"})
SpecTree == Init /\ [][NextTree]_vars

\* ------------------------------------------------------------- observation
\* The operation op on node n is the one that has just finished.
Finished(op, n) == Idle /\ last.op = op /\ last.node = n

\* A step in which the application's operation op on node n runs to its end.
\* (A global query spans several steps; last changes in its final step only.)
Finishes(op, n) ==
    /\ stack' = <<>> /\ ~overflow'
    /\ last'.op = op /\ last'.node = n
    /\ \/ last' # last
       \/ stack = <<>> /\ <<mutations', invalidations'>> # <<mutations, invalidations>>

\* Entry (row, col) of a matrix, rows and columns counted from 0 as in
\* Matrix::new's r<row>c<col>.
entry(m, row, col) == m[col + 1][row + 1]

\* The matrix m applied to the column vector v: component i is the dot product
\* of row i of m with v.
apply(m, v) ==
    [i \in 1..4 |-> m[1][i] * v[1] + m[2][i] * v[2] + m[3][i] * v[3] + m[4][i] * v[4]]

\* The matrix a recomputation from the current fields of n gives.
fresh_local(n) ==
    create_local_transformation_matrix(position[n], rotation[n], scale[n])

\* n is a root: its parent reference does not resolve.
IsRoot(n) == parent[n] = NoNode \/ ~alive[parent[n]]

Empty == [local |-> None, global |-> None]

\* ------------------------------------------------------------- claims

\* C1: after position_mut() changed a node's position, a local query that
\* follows invalidate_cache() on the node is a miss and returns the matrix
\* computed from the node's current (new) position; a local query that follows
\* position_mut() directly, with a local matrix cached before the change,
\* returns that cached matrix (position_mut() leaves it in the cell).
C1_InvalidationCorrectness ==
    [][\A n \in Nodes :
        /\ (Finished("invalidate_cache", n)
              /\ Finishes("local_transformation_matrix", n))
           => (~last'.hit /\ last'.ret = fresh_local(n))
        /\ (Finished("position_mut", n) /\ cached[n].local # None
              /\ Finishes("local_transformation_matrix", n))
           => (last'.hit /\ last'.ret = cached[n].local)
        /\ (Idle /\ Finishes("position_mut", n))
           => (cached' = cached /\ position'[n] # position[n])
      ]_vars

\* C1 witness: a local query recomputed the matrix of a node whose position was
\* moved off the origin and whose cache was invalidated afterwards.
C1_Witness ==
    \E n \in Nodes :
        /\ Finished("local_transformation_matrix", n)
        /\ ~last.hit /\ invalidations > 0
        /\ position[n] # ORIGIN
        /\ last.ret = fresh_local(n)
        /\ last.ret # create_local_transformation_matrix(ORIGIN, rotation[n], scale[n])

C3_GlobalIsLocalTimesParentGlobal ==
    /\ \A n \in Nodes :
          (Finished("global_transformation_matrix", n) /\ ~last.hit /\ ~IsRoot(n))
          => /\ cached[n].local # None
             /\ cached[parent[n]].global # None
             /\ last.ret = Matrix_mul(cached[n].local, cached[parent[n]].global)
             /\ cached[n].global = last.ret
    \* at every level of the recursion: the frame that waits holds the node's
    \* local matrix, and what its call on the parent returned is the parent's
    \* global cell
    /\ (stack # <<>> /\ ret # None)
       => /\ top.matrix = cached[top.node].local
          /\ ~IsRoot(top.node)
          /\ ret = cached[parent[top.node]].global

\* C3 witness: such a query finished with operands that do not commute.
C3_Witness ==
    \E n \in Nodes :
        /\ Finished("global_transformation_matrix", n) /\ ~last.hit /\ ~IsRoot(n)
        /\ last.ret # Matrix_mul(cached[parent[n]].global, cached[n].local)

\* C4, as claimed: the global matrix a miss computes for a child applies the
\* child's local matrix to a vector first and the parent's global matrix to the
\* result.
C4_LocalAppliedFirst ==
    \A n \in Nodes :
        (Finished("global_transformation_matrix", n) /\ ~last.hit /\ ~IsRoot(n))
        => \A v \in Vectors :
              apply(last.ret, v) =
                  apply(cached[parent[n]].global, apply(cached[n].local, v))

\* C4, amended: the global matrix a miss computes for a child applies the
\* parent's global matrix to a vector first and the child's local matrix to the
\* result.
C4_ParentAppliedFirst ==
    \A n \in Nodes :
        (Finished("global_transformation_matrix", n) /\ ~last.hit /\ ~IsRoot(n))
        => \A v \in Vectors :
              apply(last.ret, v) =
                  apply(cached[n].local, apply(cached[parent[n]].global, v))

\* C4 witness: a child's global matrix was computed from a parent's global
\* matrix and a local matrix for which the two orders differ on some vector.
C4_Witness ==
    \E n \in Nodes :
        /\ Finished("global_transformation_matrix", n) /\ ~last.hit /\ ~IsRoot(n)
        /\ \E v \in Vectors :
              apply(cached[n].local, apply(cached[parent[n]].global, v)) #
                  apply(cached[parent[n]].global, apply(cached[n].local, v))

\* C5, as claimed: whenever a global query and then a local query are made on
\* a root, they return the same matrix.
C5_RootGlobalIsLocal ==
    [][\A n \in Nodes :
        (Finished("global_transformation_matrix", n) /\ IsRoot(n)
           /\ Finishes("local_transformation_matrix", n))
        => last'.ret = last.ret
      ]_vars

\* C5, amended: whenever a global query that misses and then a local query are
\* made on a root, they return the same matrix, which both cells then hold.
C5_RootGlobalMissIsLocal ==
    [][\A n \in Nodes :
        (Finished("global_transformation_matrix", n) /\ IsRoot(n) /\ ~last.hit
           /\ Finishes("local_transformation_matrix", n))
        => /\ last'.ret = last.ret
           /\ last'.hit
           /\ cached[n] = [local |-> last.ret, global |-> last.ret]
      ]_vars

\* C5 witness: a global query missed on a node whose parent had been dropped.
C5_Witness ==
    \E n \in Nodes :
        /\ Finished("global_transformation_matrix", n) /\ ~last.hit
        /\ parent[n] # NoNode /\ ~alive[parent[n]]
        /\ last.ret = cached[n].local

\* C6: the local matrix of a node in its default state, as an array, is the
\* 4x4 identity array.
C6_DefaultLocalIsIdentity ==
    \A n \in Nodes :
        (Finished("local_transformation_matrix", n) /\ mutations = 0)
        => to_array(last.ret) =
              <<<<1, 0, 0, 0>>, <<0, 1, 0, 0>>, <<0, 0, 1, 0>>, <<0, 0, 0, 1>>>>

\* C7: the recomputed local matrix of a node at the origin with zero rotation
\* and scale 2 has 2 at (0,0), (1,1), (2,2), 1 at (3,3) and 0 at (0,3), (1,3),
\* (2,3).
C7_ScaleTwoDiagonal ==
    \A n \in Nodes :
        (Finished("local_transformation_matrix", n) /\ ~last.hit
           /\ position[n] = ORIGIN /\ rotation[n] = ZERO /\ scale[n] = 2)
        => /\ entry(last.ret, 0, 0) = 2
           /\ entry(last.ret, 1, 1) = 2
           /\ entry(last.ret, 2, 2) = 2
           /\ entry(last.ret, 3, 3) = 1
           /\ entry(last.ret, 0, 3) = 0
           /\ entry(last.ret, 1, 3) = 0
           /\ entry(last.ret, 2, 3) = 0

\* C8: with root R at (5,0,0) and child C of R at (1,0,0), both with zero
\* rotation and scale 1 and both recomputed from these fields, the global
\* matrix a miss computes for C maps the origin (0,0,0,1) to (6,0,0,1).
C8_HierarchyComposition ==
    \A r \in Nodes, c \in Nodes :
        (/\ Finished("global_transformation_matrix", c) /\ ~last.hit
         /\ r # c /\ parent[c] = r /\ alive[r] /\ IsRoot(r)
         /\ position[r] = [x |-> 5, y |-> 0, z |-> 0]
         /\ position[c] = [x |-> 1, y |-> 0, z |-> 0]
         /\ rotation[r] = ZERO /\ rotation[c] = ZERO
         /\ scale[r] = 1 /\ scale[c] = 1
         /\ cached[r].local = fresh_local(r)
         /\ cached[r].global = cached[r].local
         /\ cached[c].local = fresh_local(c))
        => apply(last.ret, <<0, 0, 0, 1>>) = <<6, 0, 0, 1>>

\* C9: a recomputed local matrix, applied to a position v (w = 1), scales v,
\* then rotates it, then adds the node's position: (R(scale * v) + position, 1).
C9_ScaleRotateTranslate ==
    \A n \in Nodes :
        (Finished("local_transformation_matrix", n) /\ ~last.hit)
        => \A v \in PositionVectors :
              LET sv == <<scale[n] * v[1], scale[n] * v[2], scale[n] * v[3], 1>>
                  rv == apply(create_local_rotation_matrix(rotation[n]), sv)
              IN  apply(last.ret, v) =
                      <<rv[1] + position[n].x, rv[2] + position[n].y,
                        rv[3] + position[n].z, 1>>

\* C10: invalidate_cache() leaves both cells of the node empty whatever they
\* held, and the local or global query that follows it on the node is a miss.
C10_InvalidateCacheEmptiesBoth ==
    [][\A n \in Nodes :
        /\ (Idle /\ Finishes("invalidate_cache", n))
           => cached'[n] = Empty
        /\ (last.op = "invalidate_cache" /\ last.node = n
              /\ (\/ Finishes("local_transformation_matrix", n)
                  \/ Finishes("global_transformation_matrix", n)))
           => ~last'.hit
      ]_vars

\* C10 witness: invalidate_cache() has just emptied two cells that both held a
\* matrix.
C10_Witness ==
    \E n \in Nodes :
        /\ Finished("invalidate_cache", n)
        /\ last.hit
        /\ cached[n] = Empty

\* C11: invalidate_global_cache() empties the global cell of the node and
\* nothing else: its local cell, its position, rotation, scale and parent
\* reference and every other node are as before, and the local query that
\* follows on a node whose local cell held a matrix is a hit returning it.
C11_InvalidateGlobalOnlyGlobal ==
    [][\A n \in Nodes :
        /\ (Idle /\ Finishes("invalidate_global_cache", n))
           => /\ cached'[n].global = None
              /\ cached'[n].local = cached[n].local
              /\ \A o \in Nodes \ {n} : cached'[o] = cached[o]
              /\ UNCHANGED <<alive, parent, position, rotation, scale>>
        /\ (Finished("invalidate_global_cache", n) /\ cached[n].local # None
              /\ Finishes("local_transformation_matrix", n))
           => /\ last'.hit
              /\ last'.ret = cached[n].local
              /\ cached' = cached
      ]_vars

\* C11 witness: invalidate_global_cache() has just emptied a global cell that
\* held a matrix, on a node whose local cell holds one.
C11_Witness ==
    \E n \in Nodes :
        /\ Finished("invalidate_global_cache", n)
        /\ last.hit
        /\ cached[n].local # None /\ cached[n].global = None

\* C12: an assignment through position_mut(), rotation_mut(), scale_mut() or
\* parent_mut() changes the field it names and leaves both cells of the node,
\* and of every other node, exactly as they were.
C12_MutationKeepsCache ==
    [][\A n \in Nodes :
        /\ (Idle /\ Finishes("position_mut", n))
           => (cached' = cached /\ position'[n] # position[n])
        /\ (Idle /\ Finishes("rotation_mut", n))
           => (cached' = cached /\ rotation'[n] # rotation[n])
        /\ (Idle /\ Finishes("scale_mut", n))
           => (cached' = cached /\ scale'[n] # scale[n])
        /\ (Idle /\ Finishes("parent_mut", n))
           => (cached' = cached /\ parent'[n] # parent[n])
      ]_vars

\* C12 witness: the parent reference of a node was assigned while both of its
\* cells held a matrix, and they still hold one.
C12_Witness ==
    \E n \in Nodes :
        /\ Finished("parent_mut", n)
        /\ parent[n] # NoNode
        /\ cached[n].local # None /\ cached[n].global # None

\* C13: in an application that calls invalidate_cache() on a node after every
\* assignment of its position, rotation or scale and before the next query, a
\* local cell that holds a matrix, on a node for which no such call is owed,
\* holds the matrix composed from the node's current position, rotation and
\* scale.
C13_CachedLocalIsCurrent ==
    \A n \in Nodes :
        (alive[n] /\ "fields" \notin owes[n] /\ cached[n].local # None)
        => cached[n].local = fresh_local(n)

\* C13 witness: after an assignment that moved a node off the origin while its
\* local cell held a matrix, and the invalidate_cache() owed for it, a query
\* filled the local cell again.
C13_Witness ==
    \E n \in Nodes :
        /\ Idle /\ last.node = n /\ ~last.hit
        /\ last.op \in {"local_transformation_matrix", "global_transformation_matrix"}
        /\ owes[n] = {"paid"} /\ mutations = 1
        /\ position[n] # ORIGIN
        /\ cached[n].local = fresh_local(n)

\* The global cell of n holds the node's current local matrix multiplied by
\* its parent's current global matrix, or the local matrix when no parent
\* resolves; current is what the query would return now.
GlobalCellIsCurrent(n) ==
    IF IsRoot(n)
       THEN cached[n].global = local_matrix(n).matrix
       ELSE LET parent_global == global_matrix(parent[n], NumNodes)
            IN  /\ parent_global # None
                /\ cached[n].global =
                       Matrix_mul(local_matrix(n).matrix, parent_global)

\* C14, as claimed: once invalidate_cache() has been called on every node
\* whose position, rotation, scale or parent was assigned, and before any
\* query is made, every global cell that holds a matrix holds local x parent's
\* current global matrix (the local matrix when no parent resolves).  Stated
\* for the runs in which no node was dropped.
C14_CachedGlobalIsCurrent ==
    (Idle /\ Paid({"fields", "parent"}) /\ \A m \in Nodes : alive[m])
    => \A n \in Nodes :
          (alive[n] /\ cached[n].global # None) => GlobalCellIsCurrent(n)

\* C14, amended: the same, in an application that also calls invalidate_cache()
\* or invalidate_global_cache() on every node below a node that was assigned
\* to or dropped, before the next query.
C14_CachedGlobalIsCurrentInTree ==
    Paid({"fields", "parent", "ancestor"})
    => \A n \in Nodes :
          (alive[n] /\ cached[n].global # None) => GlobalCellIsCurrent(n)

\* C14 witness: a child holds a global matrix computed after its parent was
\* moved off the origin while the global cells of both held a matrix, and the
\* invalidations owed to the parent and to the child were made.
C14_Witness ==
    \E n \in Nodes :
        /\ Idle /\ cached[n].global # None
        /\ ~IsRoot(n) /\ position[parent[n]] # ORIGIN
        /\ mutations = 2
        /\ owes[n] = {"paid"} /\ owes[parent[n]] = {"paid"}
        /\ cached[n].global = Matrix_mul(fresh_local(n), fresh_local(parent[n]))

\* C15: invalidate_cache() or invalidate_global_cache() on a node, and the
\* drop of a node, leave both cells of every other node as they were; and a
\* global query on a node whose global cell holds a matrix returns that matrix
\* whatever happened to its parent: in particular right after the parent was
\* invalidated or dropped.
C15_NoCascade ==
    [][\A n \in Nodes :
        /\ (Idle /\ (\/ Finishes("invalidate_cache", n)
                     \/ Finishes("invalidate_global_cache", n)
                     \/ Finishes("drop", n)))
           => \A o \in Nodes \ {n} : cached'[o] = cached[o]
        /\ (Idle /\ cached[n].global # None
              /\ Finishes("global_transformation_matrix", n))
           => /\ last'.hit
              /\ last'.ret = cached[n].global
              /\ cached' = cached
      ]_vars

\* C15 witness: after its parent was invalidated, a child returned the global
\* matrix it had cached, which is not the one a recomputation would give now.
C15_Witness ==
    \E n \in Nodes :
        /\ Finished("global_transformation_matrix", n) /\ last.hit
        /\ ~IsRoot(n) /\ invalidations > 0
        /\ cached[parent[n]].global = None
        /\ global_matrix(parent[n], NumNodes) # None
        /\ last.ret # Matrix_mul(fresh_local(n), global_matrix(parent[n], NumNodes))

\* The global matrix of n recomputed without any cache, from the current
\* fields of n and of the nodes above it: create_global_transformation_matrix
\* over create_local_transformation_matrix.  None when the chain of parents
\* is longer than k.
RECURSIVE fresh_global(_, _)
fresh_global(n, k) ==
    LET p == upgrade(parent[n])
    IN  IF p = NoNode THEN fresh_local(n)
        ELSE IF k = 0 THEN None
        ELSE LET above == fresh_global(p, k - 1)
             IN  IF above = None THEN None
                 ELSE Matrix_mul(fresh_local(n), above)

\* C16: in an application that, before the next query, calls invalidate_cache()
\* on every node it assigned to and invalidate_global_cache() (or
\* invalidate_cache()) on every node below a node it assigned to or dropped,
\* every global query, hit or miss, on any node returns the matrix recomputed
\* without cache from the current fields of the node and the nodes above it.
C16_GlobalIsUncached ==
    \A n \in Nodes :
        Finished("global_transformation_matrix", n)
        => last.ret = fresh_global(n, NumNodes)

\* C16 witness: a parent was changed while its child's global cell held a
\* matrix, the invalidations owed to both were made, and a global query on the
\* child then recomputed a matrix that shows the parent's new position.
C16_Witness ==
    \E n \in Nodes :
        /\ Finished("global_transformation_matrix", n) /\ ~last.hit
        /\ ~IsRoot(n) /\ position[parent[n]] = [x |-> 5, y |-> 0, z |-> 0]
        /\ mutations = 2
        /\ owes[n] = {"paid"} /\ owes[parent[n]] = {"paid"}
        /\ cached[n].local # None
        /\ last.ret = Matrix_mul(cached[n].local, fresh_local(parent[n]))

\* C17: a global query that misses on a node whose parent reference does not
\* resolve, because the parent was dropped or because none was ever set,
\* returns the node's local matrix and leaves it in both cells; it makes no
\* call on a parent (no frame of such a node ever waits for one) and it does
\* not fail.
C17_UnresolvedParentIsRoot ==
    /\ \A n \in Nodes :
          (last.op = "global_transformation_matrix" /\ last.node = n
             /\ stack = <<>> /\ ~last.hit /\ IsRoot(n))
          => /\ ~overflow
             /\ last.ret = local_matrix(n).matrix
             /\ cached[n] = [local |-> last.ret, global |-> last.ret]
    /\ \A i \in 1..Len(stack) :
          stack[i].matrix # None => ~IsRoot(stack[i].node)

\* C17 witness: a node moved off the origin, whose parent was dropped, was
\* queried after an invalidation, and the global query missed and returned
\* the node's local matrix.
C17_Witness ==
    \E n \in Nodes :
        /\ Finished("global_transformation_matrix", n) /\ ~last.hit
        /\ parent[n] # NoNode /\ ~alive[parent[n]]
        /\ invalidations > 0 /\ position[n] # ORIGIN
        /\ last.ret = fresh_local(n)

\* n is transitively its own ancestor.
OnCycle(n) == IsAncestor(n, n, NumNodes)

\* The nodes a global query on n can reach: n and the nodes above it.
Chain(n) == {n} \cup {a \in Nodes : IsAncestor(a, n, NumNodes)}

\* Every node a global query on n can reach has a parent that resolves and an
\* empty global cell: the chain runs into a cycle and nothing stops the
\* recursion on the way.
Endless(n) ==
    \A m \in Chain(n) : upgrade(parent[m]) # NoNode /\ cached[m].global = None

\* A global query is in progress that nothing stops.
InEndlessCall == stack # <<>> /\ Endless(stack[1].node)

\* C18, as claimed: a global query on a node that is transitively its own
\* ancestor never returns.
C18_CycleNeverReturns ==
    \A n \in Nodes :
        ~(Finished("global_transformation_matrix", n) /\ OnCycle(n))

\* C18, amended: a global query on a node whose chain of parents runs into a
\* cycle with no global matrix cached on the way never returns: every step
\* of it calls one level further up, until the stack is exhausted.  A query
\* that meets a cached global matrix on the way is not of that kind (it never
\* exhausts the stack).
C18_EndlessNeverReturns ==
    [][/\ \A n \in Nodes :
            (Idle /\ Endless(n) /\ stack' # <<>> /\ stack'[1].node = n)
            => InEndlessCall'
       /\ \A n \in Nodes :
            (Idle /\ Finishes("global_transformation_matrix", n)) => ~Endless(n)
       /\ InEndlessCall
            => /\ InEndlessCall'
               /\ stack'[1] = stack[1]
               /\ overflow' \/ Len(stack') > Len(stack)
       /\ overflow' => InEndlessCall'
      ]_vars

\* C18 witness: a global query on a node that is transitively its own ancestor
\* exhausted the stack.
C18_Witness ==
    /\ overflow
    /\ stack # <<>>
    /\ OnCycle(stack[1].node)
    /\ Len(stack) > NumNodes

\* A position or direction v turned by q quarter turns about the X, the Y and
\* the Z axis (counter-clockwise seen from the positive end of the axis).
rotated_x(q, v) ==
    <<v[1],
      v[2] * SinCos(q).cos - v[3] * SinCos(q).sin,
      v[2] * SinCos(q).sin + v[3] * SinCos(q).cos,
      v[4]>>
rotated_y(q, v) ==
    <<v[1] * SinCos(q).cos + v[3] * SinCos(q).sin,
      v[2],
      v[3] * SinCos(q).cos - v[1] * SinCos(q).sin,
      v[4]>>
rotated_z(q, v) ==
    <<v[1] * SinCos(q).cos - v[2] * SinCos(q).sin,
      v[1] * SinCos(q).sin + v[2] * SinCos(q).cos,
      v[3],
      v[4]>>

\* C19: the rotation matrix of a rotation r is Rx(r.x) x Ry(r.y) x Rz(r.z);
\* applied to a vector it turns the vector about Z first, then about Y, then
\* about X; for the zero rotation it is the identity.
C19_RotationOrder ==
    probe.result # None
    => LET r == probe.args[1]
           R == probe.result
       IN  /\ R = Matrix_mul(Matrix_mul(create_local_x_rotation_matrix(r),
                                        create_local_y_rotation_matrix(r)),
                             create_local_z_rotation_matrix(r))
           /\ \A v \in Vectors :
                 apply(R, v) = rotated_x(r.x, rotated_y(r.y, rotated_z(r.z, v)))
           /\ r = ZERO
                 => to_array(R) =
                       <<<<1, 0, 0, 0>>, <<0, 1, 0, 0>>, <<0, 0, 1, 0>>, <<0, 0, 0, 1>>>>

\* C19 witness: the rotation matrix was made for a rotation about all three
\* axes for which the order of the three turns matters.
C19_Witness ==
    /\ probe.fn = "create_local_rotation_matrix"
    /\ probe.result # None
    /\ LET r == probe.args[1]
       IN  /\ r.x # 0 /\ r.y # 0 /\ r.z # 0
           /\ \E v \in Vectors :
                 apply(probe.result, v) #
                     rotated_z(r.z, rotated_y(r.y, rotated_x(r.x, v)))

\* C20: the recomputed local matrix of a node at the origin with scale 1 and
\* a rotation of a quarter turn about Z alone takes (1,0,0) to (0,1,0): as a
\* direction (w = 0), and as a Point converted to a Vector and back.
C20_QuarterTurnAboutZ ==
    \A n \in Nodes :
        (Finished("local_transformation_matrix", n) /\ ~last.hit
           /\ position[n] = ORIGIN /\ scale[n] = 1
           /\ rotation[n] = [x |-> 0, y |-> 0, z |-> 1])
        => /\ apply(last.ret, <<1, 0, 0, 0>>) = <<0, 1, 0, 0>>
           /\ Point_from(apply(last.ret, Vector_from([x |-> 1, y |-> 0, z |-> 0])))
                 = [x |-> 0, y |-> 1, z |-> 0]

\* C20 witness: a local query recomputed the matrix of such a node.
C20_Witness ==
    \E n \in Nodes :
        /\ Finished("local_transformation_matrix", n) /\ ~last.hit
        /\ position[n] = ORIGIN /\ scale[n] = 1
        /\ rotation[n] = [x |-> 0, y |-> 0, z |-> 1]
        /\ Point_from(apply(last.ret, <<1, 0, 0, 1>>)) = [x |-> 0, y |-> 1, z |-> 0]

\* C21: entry (row, col) of self * rhs is the sum over k of self[row][k] *
\* rhs[k][col], for every pair of matrices and every row, col in 0..3.
C21_StandardProduct ==
    (probe.fn = "Matrix_mul" /\ probe.result # None)
    => LET A == probe.args[1]
           B == probe.args[2]
       IN  \A row \in 0..3, col \in 0..3 :
              entry(probe.result, row, col) =
                  entry(A, row, 0) * entry(B, 0, col) + entry(A, row, 1) * entry(B, 1, col)
                  + entry(A, row, 2) * entry(B, 2, col) + entry(A, row, 3) * entry(B, 3, col)

\* C21 witness: a product was formed of two matrices that do not commute.
C21_Witness ==
    /\ probe.fn = "Matrix_mul" /\ probe.result # None
    /\ probe.result # Matrix_mul(probe.args[2], probe.args[1])
    /\ probe.result # Matrix_ZERO

\* C22: for every matrix A, A * IDENTITY = A and IDENTITY * A = A, and the
\* rows of IDENTITY times a vector v give v.
C22_IdentityLaws ==
    /\ (probe.fn = "Matrix_mul" /\ probe.result # None)
       => /\ probe.args[2] = IDENTITY => probe.result = probe.args[1]
          /\ probe.args[1] = IDENTITY => probe.result = probe.args[2]
    /\ (probe.fn = "rows times vector" /\ probe.result # None
          /\ probe.args[1] = IDENTITY)
       => probe.result = probe.args[2]

\* C22 witness: IDENTITY was multiplied from the left onto a matrix that is
\* neither symmetric nor the identity.
C22_Witness ==
    /\ probe.fn = "Matrix_mul" /\ probe.result # None
    /\ probe.args[1] = IDENTITY
    /\ probe.args[2] # IDENTITY
    /\ probe.args[2] # as_rows(probe.args[2])
    /\ probe.result = probe.args[2]

\* C23: (A * B) * C = A * (B * C) for all matrices A, B, C of the sample.
C23_Associative ==
    (probe.fn = "Matrix_mul twice" /\ probe.result # None)
    => probe.result.left = probe.result.right

\* C23 witness: a product of three matrices was formed both ways, of matrices
\* that do not commute with one another.
C23_Witness ==
    /\ probe.fn = "Matrix_mul twice" /\ probe.result # None
    /\ Matrix_mul(probe.args[1], probe.args[2]) # Matrix_mul(probe.args[2], probe.args[1])
    /\ Matrix_mul(probe.args[2], probe.args[3]) # Matrix_mul(probe.args[3], probe.args[2])
    /\ probe.result.left = probe.result.right

\* C24: for the matrix Matrix::new makes of 16 arguments given row by row,
\* columns()[j] component i and to_array()[j][i] are the argument of row i,
\* column j, and so is as_rows()[i] component j.
C24_RowMajorArgumentsColumnStorage ==
    (probe.fn = "Matrix_new" /\ probe.result # None)
    => \A i \in 0..3, j \in 0..3 :
          LET argument == probe.args[4 * i + j + 1]
          IN  /\ probe.result.columns[j + 1][i + 1] = argument
              /\ probe.result.to_array[j + 1][i + 1] = argument
              /\ probe.result.as_rows[i + 1][j + 1] = argument

\* C24 witness: a matrix was made of 16 different arguments.
C24_Witness ==
    /\ probe.fn = "Matrix_new" /\ probe.result # None
    /\ Cardinality({probe.args[k] : k \in 1..16}) = 16
    /\ probe.result.columns[1] = <<1, 5, 9, 13>>

\* C25: a node on which nothing has been assigned yet is at the origin, has
\* zero rotation and scale 1 and a parent reference that does not resolve; and
\* before the first operation both cells of every node are empty.
C25_NewNodeIsDefault ==
    /\ mutations = 0
       => \A n \in Nodes :
             /\ alive[n]
             /\ position[n] = [x |-> 0, y |-> 0, z |-> 0]
             /\ rotation[n] = [x |-> 0, y |-> 0, z |-> 0]
             /\ scale[n] = 1
             /\ upgrade(parent[n]) = NoNode
    /\ (last = NoResult /\ stack = <<>>)
       => \A n \in Nodes : cached[n] = [local |-> None, global |-> None]

\* C25 witness: the nodes have just been made and nothing was called on them.
C25_Witness ==
    /\ last = NoResult /\ stack = <<>>
    /\ mutations = 0 /\ invalidations = 0
    /\ \A n \in Nodes : alive[n] /\ cached[n] = Empty

\* C26: a global query on a node whose global cell holds a matrix returns
\* that matrix in one step, a hit, whatever the node's fields, its parent
\* reference and the nodes above it are now: it makes no call on the parent
\* and writes no cell.
C26_GlobalHitReturnsCell ==
    [][\A n \in Nodes :
        (Idle /\ cached[n].global # None)
        => /\ Finishes("global_transformation_matrix", n)
              => /\ last'.hit
                 /\ last'.ret = cached[n].global
                 /\ UNCHANGED <<cached, alive, parent, position, rotation, scale>>
           /\ ~(stack' # <<>> /\ stack'[1].node = n)
      ]_vars

\* C26 witness: a global query hit on a matrix that a recomputation from the
\* current fields of the node and of the nodes above it would not give.
C26_Witness ==
    \E n \in Nodes :
        /\ Finished("global_transformation_matrix", n) /\ last.hit
        /\ mutations > 0
        /\ fresh_global(n, NumNodes) # None
        /\ last.ret # fresh_global(n, NumNodes)

\* The nodes that have a frame on the stack s.
Visited(s) == {s[i].node : i \in 1..Len(s)}

\* Every frame but the last is of a node whose global cell is empty, holds
\* that node's local matrix, and is followed by the frame of the node its
\* parent reference resolves to.
UpwardRun(s) ==
    \A i \in 1..(Len(s) - 1) :
        /\ s[i].matrix # None
        /\ cached[s[i].node].global = None
        /\ s[i + 1].node = upgrade(parent[s[i].node])

Acyclic(n) == \A m \in Chain(n) : ~OnCycle(m)

\* C28: a global query on a node whose chain of parents ends comes to its end
\* and never exhausts the stack; no node has two frames in it, so that each
\* node of the chain is recomputed at most once; and a local query ends in the
\* step it is made in, writes the node's local cell only and returns the same
\* matrix whatever the parent reference is.
C28_AcyclicTerminates ==
    /\ [](\A n \in Nodes :
            (stack # <<>> /\ stack[1].node = n /\ Acyclic(n))
            => /\ ~overflow
               /\ \A i \in 1..Len(stack), j \in 1..Len(stack) :
                     i # j => stack[i].node # stack[j].node)
    /\ \A n \in Nodes :
          (stack # <<>> /\ stack[1].node = n /\ Acyclic(n))
          ~> (Idle /\ last.op = "global_transformation_matrix" /\ last.node = n)
    /\ [][\A n \in Nodes :
            (Idle /\ last' # last
               /\ last'.op = "local_transformation_matrix" /\ last'.node = n)
            => /\ stack' = <<>> /\ ~overflow'
               /\ last'.ret = local_matrix(n).matrix
               /\ cached' = [cached EXCEPT ![n].local = last'.ret]
         ]_vars

\* C28 witness: a global query on a child whose parent is a root has called
\* the parent, with both global cells empty: the recursion is two frames deep.
C28_Witness ==
    /\ Len(stack) = 2 /\ ~overflow
    /\ Acyclic(stack[1].node)
    /\ top.matrix = None
    /\ cached[top.node].global = None
    /\ IsRoot(top.node)

\* C29: in every state, whatever queries, assignments and invalidations the
\* application made and also in the middle of a global query, a node whose
\* global cell holds a matrix has a matrix in its local cell too.
C29_GlobalImpliesLocal ==
    \A n \in Nodes : cached[n].global # None => cached[n].local # None

\* C29 witness: after a field was assigned and a cell invalidated, a global
\* query that missed has just ended and the node holds both matrices, while
\* the other node holds a local matrix and no global one.
C29_Witness ==
    \E n \in Nodes, m \in Nodes :
        /\ Finished("global_transformation_matrix", n) /\ ~last.hit
        /\ mutations > 0 /\ invalidations > 0
        /\ cached[n].global # None /\ cached[n].local # None
        /\ cached[m].global = None /\ cached[m].local # None

\* Both cells of node n hold a matrix.
Filled(n) == cached[n].local # None /\ cached[n].global # None

\* C30: when a global query that missed has ended, the node's two cells hold
\* matrices, and so do the two cells of every ancestor the recursion visited:
\* the cells of a node are both filled in the step in which its frame returns,
\* no step of a query empties a cell, and the node's parent, when it resolves,
\* has both cells filled at the end.  A local query changes the node's own
\* local cell and no other cell.
C30_MissFillsVisitedNodes ==
    /\ [](\A n \in Nodes :
            (Finished("global_transformation_matrix", n) /\ ~last.hit)
                => /\ Filled(n)
                   /\ upgrade(parent[n]) # NoNode => Filled(upgrade(parent[n])))
    /\ [][\A n \in Nodes :
            (stack # <<>> /\ top.node = n /\ Len(stack') < Len(stack)) =>
                cached'[n].local # None /\ cached'[n].global # None]_vars
    /\ [][(stack # <<>> \/ stack' # <<>>) =>
            \A n \in Nodes :
                /\ cached[n].local # None => cached'[n].local = cached[n].local
                /\ cached[n].global # None => cached'[n].global = cached[n].global]_vars
    /\ [][\A n \in Nodes :
            (Idle /\ Finishes("local_transformation_matrix", n)) =>
                /\ cached'[n].local # None
                /\ cached'[n].global = cached[n].global
                /\ \A m \in Nodes \ {n} : cached'[m] = cached[m]]_vars

\* C30 witness: a global query on a child missed, went up to the child's
\* parent, a root, and has ended: all four cells hold matrices.
C30_Witness ==
    \E n \in Nodes :
        /\ Finished("global_transformation_matrix", n) /\ ~last.hit
        /\ upgrade(parent[n]) \notin {NoNode, n}
        /\ IsRoot(parent[n])
        /\ Filled(n) /\ Filled(parent[n])
        /\ cached[n].global # cached[n].local

\* The application's previous call was invalidate_global_cache() on n, and the
\* local cell of n holds a matrix that the current fields of n no longer give:
\* a field of n was assigned while the local matrix was cached, and no
\* invalidate_cache() on n followed.
OnlyGlobalInvalidated(n) ==
    /\ last.op = "invalidate_global_cache" /\ last.node = n
    /\ cached[n].global = None
    /\ cached[n].local # None /\ cached[n].local # fresh_local(n)

\* C31: after a field of a node changed while its local matrix was cached and
\* only invalidate_global_cache() was called on the node, the next global
\* query on it takes the cached local matrix: at a root it returns that
\* matrix, below a parent it multiplies that matrix by what the parent's query
\* returns; the matrix the current fields give is not used, and the result
\* differs from the one the current fields would give.
C31_GlobalBuiltFromStaleLocal ==
    /\ [][\A n \in Nodes :
            (Idle /\ OnlyGlobalInvalidated(n) /\ ~Idle'
                  /\ stack' # <<>> /\ stack'[1].node = n) =>
                /\ stack'[1].matrix = cached[n].local
                /\ cached'[n].local = cached[n].local]_vars
    /\ [][\A n \in Nodes :
            (Idle /\ OnlyGlobalInvalidated(n)
                  /\ Finishes("global_transformation_matrix", n)) =>
                /\ ~last'.hit
                /\ last'.ret = cached[n].local
                /\ last'.ret # fresh_local(n)
                /\ cached'[n].local = cached[n].local]_vars
    /\ [](\A n \in Nodes :
            (/\ Finished("global_transformation_matrix", n) /\ ~last.hit
             /\ cached[n].local # fresh_local(n)
             /\ upgrade(parent[n]) # NoNode) =>
                LET parent_global == cached[upgrade(parent[n])].global
                IN  /\ last.ret = create_global_product(cached[n].local,
                                                        parent_global)
                    /\ last.ret # create_global_product(fresh_local(n),
                                                        parent_global))

\* C31 witness: a field of a child was assigned while its local matrix was
\* cached, invalidate_global_cache() was the application's last call, and the
\* global query that followed holds the old local matrix in its frame while it
\* calls the parent.
C31_Witness ==
    \E n \in Nodes :
        /\ OnlyGlobalInvalidated(n) /\ last.hit
        /\ mutations > 0
        /\ Len(stack) = 2 /\ ~overflow
        /\ stack[1] = Frame(n, cached[n].local)
        /\ stack[2].node # n

\* A step of a query: the one step of a local query that ends, or a step of a
\* global query (its start, a call on a parent, a return).
QueryStep ==
    \/ stack # <<>> \/ stack' # <<>>
    \/ \E n \in Nodes : Finishes("local_transformation_matrix", n)
    \/ \E n \in Nodes : Finishes("global_transformation_matrix", n)

\* C32: no step of a local or global query changes a position, a rotation, a
\* scale factor or a parent reference of any node (nor drops a node); a local
\* query on a node leaves that node's global cell and both cells of every
\* other node as they were.
C32_QueriesWriteCachesOnly ==
    /\ [][QueryStep => UNCHANGED <<position, rotation, scale, parent, alive>>]_vars
    /\ [][\A n \in Nodes :
            (Idle /\ Finishes("local_transformation_matrix", n)) =>
                /\ [cached' EXCEPT ![n].local = None]
                       = [cached EXCEPT ![n].local = None]
                /\ UNCHANGED <<stack, ret, overflow>>]_vars

\* C32 witness: a local query that missed has just ended on a child whose
\* position and scale are not the default ones; its global cell is still empty
\* and its parent's two cells hold the matrices they held.
C32_Witness ==
    \E n \in Nodes : \E m \in Nodes \ {n} :
        /\ Finished("local_transformation_matrix", n) /\ ~last.hit
        /\ position[n] # ORIGIN /\ scale[n] # 1
        /\ parent[n] = m /\ alive[m]
        /\ cached[n].local = fresh_local(n) /\ cached[n].global = None
        /\ Filled(m)

\* The global cell of p holds a matrix other than the one the current fields
\* of p and of its ancestors give.
StaleGlobal(p) ==
    /\ cached[p].global # None
    /\ fresh_global(p, NumNodes) # None
    /\ cached[p].global # fresh_global(p, NumNodes)

\* C33: the call a global query makes on the parent returns the parent's
\* global cell when it holds a matrix, also when that matrix is not the one
\* the parent's current fields give, and the child's result is the child's
\* local matrix times that returned matrix, not times the parent's current
\* global matrix.
C33_ChildComposesWithStaleParent ==
    /\ [][\A p \in Nodes :
            (Len(stack) > 1 /\ ~overflow /\ top = Frame(p, None)
                 /\ StaleGlobal(p)) =>
                /\ ret' = cached[p].global
                /\ stack' = pop
                /\ cached' = cached]_vars
    /\ [](\A n \in Nodes : \A p \in Nodes \ {n} :
            (/\ Finished("global_transformation_matrix", n) /\ ~last.hit
             /\ upgrade(parent[n]) = p
             /\ StaleGlobal(p)) =>
                /\ last.ret = create_global_product(cached[n].local,
                                                    cached[p].global)
                /\ last.ret # create_global_product(cached[n].local,
                                        fresh_global(p, NumNodes)))

\* C33 witness: parent and child were queried, a field of the parent was
\* assigned, invalidate_cache() was called on the child only, and in the
\* child's next global query the call on the parent has just returned the
\* parent's old global matrix to the child's frame.
C33_Witness ==
    \E n \in Nodes : \E p \in Nodes \ {n} :
        /\ upgrade(parent[n]) = p
        /\ last.op = "invalidate_cache" /\ last.node = n /\ last.hit
        /\ invalidations = 1
        /\ stack = <<Frame(n, fresh_local(n))>> /\ ~overflow
        /\ StaleGlobal(p)
        /\ ret = cached[p].global

\* C34: in the cube demo the matrix in the uniform buffer after a frame's write
\* is the one the node's position, rotation and scale of that frame give: the
\* handler assigns the three fields, empties the node's cells and only then
\* queries, so the query finds the local cell empty and recomputes.
C34_FrameWritesItsOwnMatrix ==
    /\ [](demo.pc = "write" => cached[CubeNode] = Empty)
    /\ []((demo.pc = "present" \/ (demo.pc = "events" /\ demo.tick_count > 0))
            => demo.uniform = to_array(fresh_local(CubeNode)))
    /\ [][(demo.pc = "write" /\ demo'.pc = "present") =>
            /\ demo'.uniform = to_array(create_local_transformation_matrix(
                                   position[CubeNode], rotation[CubeNode],
                                   scale[CubeNode]))
            /\ UNCHANGED <<position, rotation, scale>>]_vars

\* C34 witness: a later frame has written a matrix that differs from the one
\* the frame before it wrote, and it is the matrix of the fields set in the
\* later frame.
C34_Witness ==
    /\ demo.pc = "present" /\ demo.tick_count > 0
    /\ demo.earlier # None /\ demo.earlier # demo.uniform
    /\ demo.uniform = to_array(fresh_local(CubeNode))

\* C35: a scalar times a matrix is the matrix times the scalar, and every
\* entry of it is the matrix's entry times the scalar; a scalar times a vector
\* is the vector times the scalar, component by component; the sum of two
\* matrices has the sums of their entries.
C35_ScalarProductsAndSum ==
    /\ (probe.fn = "Matrix and Scalar" /\ probe.result # None) =>
          /\ probe.result.scalar_first = probe.result.matrix_first
          /\ \A row \in 0..3, col \in 0..3 :
                entry(probe.result.matrix_first, row, col)
                    = entry(probe.args[1], row, col) * probe.args[2]
    /\ (probe.fn = "Vector and Scalar" /\ probe.result # None) =>
          /\ probe.result.scalar_first = probe.result.vector_first
          /\ \A i \in 1..4 :
                Vector_to_array(probe.result.vector_first)[i]
                    = Vector_to_array(probe.args[1])[i] * probe.args[2]
    /\ (probe.fn = "Matrix_add" /\ probe.result # None) =>
          \A row \in 0..3, col \in 0..3 :
              entry(probe.result, row, col)
                  = entry(probe.args[1], row, col) + entry(probe.args[2], row, col)

\* C35 witness: a matrix with a translation column and no zero entry has been
\* multiplied by a scalar other than 0 and 1.
C35_Witness ==
    /\ probe.fn = "Matrix and Scalar" /\ probe.result # None
    /\ probe.args[2] \notin {0, 1}
    /\ \A row \in 0..3, col \in 0..3 : entry(probe.args[1], row, col) # 0
    /\ probe.result.scalar_first # probe.args[1]

\* C36: the vector made from a point (x, y, z) is (x, y, z, 1); the point made
\* from a vector has the vector's first three components, whatever the fourth
\* is; so a point turned into a vector and back is the point it was.
C36_PointVectorRoundTrip ==
    /\ (probe.fn = "Point to Vector to Point" /\ probe.result # None) =>
          LET p == probe.args[1]
          IN  /\ Vector_to_array(probe.result.vector) = <<p.x, p.y, p.z, 1>>
              /\ probe.result.point = p
    /\ (probe.fn = "Vector to Point" /\ probe.result # None) =>
          LET a == Vector_to_array(probe.args[1])
          IN  probe.result = [x |-> a[1], y |-> a[2], z |-> a[3]]

\* C36 witness: a point with three different coordinates, none of them 0 or 1,
\* has gone to a vector and back.
C36_Witness ==
    /\ probe.fn = "Point to Vector to Point" /\ probe.result # None
    /\ LET p == probe.args[1]
       IN  /\ Cardinality({p.x, p.y, p.z, 0, 1}) = 5
           /\ probe.result.point = p

\* Some object handed to render() has a slot with an index below 2.
HasReservedSlot ==
    \E i \in 1..Len(render.objects) : \E j \in 1..Len(render.objects[i]) :
        render.objects[i][j] < FirstUserSlot

=============================================================================
